---- MODULE Spec2Model ----
(***************************************************************************)
(* SYNAPSE leaderboard service (src/app.py): a Flask application over one  *)
(* SQLite database.  Every request opens its own connection (get_db), so   *)
(* concurrent requests interleave at the granularity of the storage        *)
(* statements and commits they issue.  SQLite admits one writing           *)
(* transaction at a time: the first INSERT/DELETE of a connection takes    *)
(* the write lock and keeps it until that connection commits; until then   *)
(* the other connections read the last committed image.  A connection      *)
(* that needs the lock while it is taken waits (sqlite3's busy handler);   *)
(* transactions here are a handful of statements long, so the wait ends.   *)
(* Foreign keys are declared in the schema but never switched on (no       *)
(* PRAGMA foreign_keys), so SQLite does not enforce them.                  *)
(*                                                                         *)
(* The Flask session is a signed cookie held by the client: a request      *)
(* works on the copy it arrived with, and the client's copy is replaced    *)
(* by the response of a request that modified its session.                 *)
(***************************************************************************)
EXTENDS Integers, Sequences, FiniteSets, Bags, TLC

(***************************************************************************)
(* Bounds of the model.                                                    *)
(***************************************************************************)
MaxDay == 1
MaxMembers == 3
MaxAudit == 3
MaxStat == 1

Requests == {"r1", "r2"}

Usernames == {"admin", "guest"}
Passwords == {"", "synapse2024", "letmein"}
MemberNames == {"", "Bob", "Carol"}
MemberIds == 0 .. MaxMembers
StatInputs ==
    {v \in (0 .. MaxStat) \X (0 .. MaxStat) \X (0 .. MaxStat) :
        v[1] + v[2] + v[3] <= MaxStat}

None == "None"

(***************************************************************************)
(* Password Hasher.  SHA-256 hex digests of the passwords in Passwords.    *)
(***************************************************************************)
hash_password(password) ==
    CASE password = "synapse2024" ->
           "b188a9bd75a9918d8e843c8d30925911156cf9d660690454798be6434aab2795"
      [] password = "letmein" ->
           "1c8bfe8f801d79745c4631d09fff36c82aa37fc4cce4fc946683d7b336b63032"
      [] OTHER ->
           "e3b0c44298fc1c149afbf4c8996fb92427ae41e4649b934ca495991b7852b855"

(***************************************************************************)
(* Period Resolver.  A date is a day offset from Sunday 2025-08-31         *)
(* (weekday 6, Monday = 0): day 1 is Monday 2025-09-01, where the week     *)
(* and the month both change.  The month key is right up to day 30.        *)
(***************************************************************************)
weekday(d) == (d + 6) % 7

get_week_start(d) == d - weekday(d)

get_month_year(d) == IF d < 1 THEN <<2025, 8>> ELSE <<2025, 9>>

(***************************************************************************)
(* Scoring Engine.                                                         *)
(***************************************************************************)
\* (mutant for C15) the bonus taken off instead of added
calculate_points_less_bonus(sessions, assessments, bonus) ==
    (sessions * 10) + (assessments * 20) - bonus

calculate_points(sessions, assessments, bonus) ==
    (sessions * 10) + (assessments * 20) + bonus

(***************************************************************************)
(* State.                                                                  *)
(*   today   the wall-clock date                                           *)
(*   db      the committed database image                                  *)
(*   txn     the image seen by the connection holding the write lock       *)
(*           (equal to db while no connection holds it)                    *)
(*   lock    the request whose connection holds the write lock, or None    *)
(*   cookie  the session cookie held by the client                         *)
(*   req     per request slot: position in its handler, arguments, locals, *)
(*           its copy of the session and its response                      *)
(*   boot    the database image the process started on                     *)
(***************************************************************************)
VARIABLES today, db, txn, lock, cookie, req, boot

vars == <<today, db, txn, lock, cookie, req, boot>>

EmptySession == [k \in {} |-> ""]

EmptyTable == EmptyBag

NoResponse == [status |-> 0, error |-> "", code |-> "", data |-> <<>>]

BlankRequest ==
    [pc |-> "idle", op |-> "none", sess |-> EmptySession, modified |-> FALSE,
     name |-> "", password |-> "", member_id |-> 0, vals |-> <<0, 0, 0>>,
     period |-> 0, member |-> None, action |-> "", details |-> <<>>,
     data |-> <<>>, resp |-> NoResponse]

(***************************************************************************)
(* init_db: the five tables, empty but for the default admin account.      *)
(* members.id is AUTOINCREMENT: member_seq is the largest id ever given.   *)
(* The stat tables are bags of rows (the rowid is never read).             *)
(***************************************************************************)
init_db ==
    [admin_users |-> {[id |-> 1, username |-> "admin",
                       password_hash |-> hash_password("synapse2024"),
                       role |-> "admin"]},
     members |-> {},
     member_seq |-> 0,
     weekly_leaderboard |-> EmptyTable,
     monthly_leaderboard |-> EmptyTable,
     audit_log |-> <<>>]

(***************************************************************************)
(* Storage statements on an image d of the database.                       *)
(***************************************************************************)
Rows(table) == BagToSet(table)

WeeklyRow(member_id, vals, week_start) ==
    [member_id |-> member_id, sessions_attended |-> vals[1],
     assessments_submitted |-> vals[2], bonus_points |-> vals[3],
     week_start |-> week_start]

MonthlyRow(member_id, vals, month_year) ==
    [member_id |-> member_id, sessions_attended |-> vals[1],
     assessments_submitted |-> vals[2], bonus_points |-> vals[3],
     month_year |-> month_year]

\* (mutant for C14) the WHERE clause left out: any member's row is fetched
SelectMemberNameAnyId(d, member_id) ==
    IF d.members = {}
    THEN None
    ELSE (CHOOSE m \in d.members : TRUE).name

\* SELECT name FROM members WHERE id = ?  (fetchone: the name, or None)
SelectMemberName(d, member_id) ==
    IF \E m \in d.members : m.id = member_id
    THEN (CHOOSE m \in d.members : m.id = member_id).name
    ELSE None

\* INSERT INTO weekly_leaderboard ... ON CONFLICT(member_id, week_start)
\* DO UPDATE SET the three counters to the excluded (new) values
\* (mutant for C3) DO UPDATE SET counter = counter + excluded.counter
UpsertWeeklyAdding(table, member_id, vals, week_start) ==
    LET hit == {x \in Rows(table) :
                   x.member_id = member_id /\ x.week_start = week_start}
    IN  IF hit = {}
        THEN table (+) SetToBag({WeeklyRow(member_id, vals, week_start)})
        ELSE LET old == CHOOSE x \in hit : TRUE
                 sum == <<old.sessions_attended + vals[1],
                          old.assessments_submitted + vals[2],
                          old.bonus_points + vals[3]>>
             IN  (table (-) SetToBag({old}))
                    (+) SetToBag({WeeklyRow(member_id, sum, week_start)})

UpsertWeekly(table, member_id, vals, week_start) ==
    LET hit == {x \in Rows(table) :
                   x.member_id = member_id /\ x.week_start = week_start}
        new == WeeklyRow(member_id, vals, week_start)
    IN  IF hit = {}
        THEN table (+) SetToBag({new})
        ELSE LET old == CHOOSE x \in hit : TRUE
             IN  (table (-) SetToBag({old})) (+) SetToBag({new})

UpsertMonthly(table, member_id, vals, month_year) ==
    LET hit == {x \in Rows(table) :
                   x.member_id = member_id /\ x.month_year = month_year}
        new == MonthlyRow(member_id, vals, month_year)
    IN  IF hit = {}
        THEN table (+) SetToBag({new})
        ELSE LET old == CHOOSE x \in hit : TRUE
             IN  (table (-) SetToBag({old})) (+) SetToBag({new})

\* DELETE FROM <table> WHERE member_id = ?
\* (mutant for C4) the stat rows are left behind
DeleteByMemberForgotten(table, member_id) == table

DeleteByMember(table, member_id) ==
    [x \in {y \in Rows(table) : y.member_id # member_id} |-> table[x]]

\* DELETE FROM weekly_leaderboard WHERE member_id = ? AND week_start = ?
\* (mutant for C18) the week left out of the WHERE clause
DeleteWeeklyRowAnyWeek(table, member_id, week_start) ==
    [x \in {y \in Rows(table) : y.member_id # member_id} |-> table[x]]

DeleteWeeklyRow(table, member_id, week_start) ==
    [x \in {y \in Rows(table) :
               ~(y.member_id = member_id /\ y.week_start = week_start)}
        |-> table[x]]

\* DELETE FROM monthly_leaderboard WHERE member_id = ? AND month_year = ?
DeleteMonthlyRow(table, member_id, month_year) ==
    [x \in {y \in Rows(table) :
               ~(y.member_id = member_id /\ y.month_year = month_year)}
        |-> table[x]]

\* DELETE FROM members WHERE id = ?
DeleteMemberRow(members, member_id) ==
    {m \in members : m.id # member_id}

(***************************************************************************)
(* init_db creates its tables IF NOT EXISTS, so the process starts on      *)
(* whatever an earlier run left in leaderboard.db.  EarlierRun is the      *)
(* database after such a run, on or before day 0:                          *)
(*   login; add Alice; add Bob; weekly (1,0,0) and monthly (0,1,0) for     *)
(*   Alice; logout.                                                        *)
(***************************************************************************)
EarlierRun ==
    [init_db EXCEPT
       !.members = {[id |-> 1, name |-> "Alice"], [id |-> 2, name |-> "Bob"]},
       !.member_seq = 2,
       !.weekly_leaderboard =
           SetToBag({WeeklyRow(1, <<1, 0, 0>>, get_week_start(0))}),
       !.monthly_leaderboard =
           SetToBag({MonthlyRow(1, <<0, 1, 0>>, get_month_year(0))}),
       !.audit_log =
           << [admin_username |-> "admin", action |-> "LOGIN",
               details |-> <<"admin", "logged in">>],
              [admin_username |-> "admin", action |-> "ADD_MEMBER",
               details |-> <<"Added member", "Alice", 1>>],
              [admin_username |-> "admin", action |-> "ADD_MEMBER",
               details |-> <<"Added member", "Bob", 2>>],
              [admin_username |-> "admin", action |-> "UPDATE_WEEKLY",
               details |-> <<"Updated weekly stats for", "Alice">>],
              [admin_username |-> "admin", action |-> "UPDATE_MONTHLY",
               details |-> <<"Updated monthly stats for", "Alice">>],
              [admin_username |-> "system", action |-> "LOGOUT",
               details |-> <<"admin", "logged out">>] >>]

Init ==
    /\ today = 0
    /\ boot \in {init_db, EarlierRun}
    /\ db = boot
    /\ txn = boot
    /\ lock = None
    /\ cookie = EmptySession
    /\ req = [r \in Requests |-> BlankRequest]

(***************************************************************************)
(* Responses.                                                              *)
(***************************************************************************)
Ok(data) == [status |-> 200, error |-> "", code |-> "", data |-> data]

Err(status, error) ==
    [status |-> status, error |-> error, code |-> "", data |-> <<>>]

AuthRequired ==
    [status |-> 401, error |-> "Authentication required",
     code |-> "AUTH_REQUIRED", data |-> <<>>]

(***************************************************************************)
(* Request slots.  A request arrives in a free slot with the client's      *)
(* cookie as its session; its response ends it (pc = "done") and Return    *)
(* frees the slot.  Handing over the response touches nothing shared, so   *)
(* Next lets it happen before any other step.                              *)
(* Requests that can reach log_action are admitted only while the audit    *)
(* log has room for them (the bound MaxAudit).                             *)
(***************************************************************************)
Free(r) == req[r].pc = "idle"

InFlight == {r \in Requests : req[r].pc \notin {"idle", "done"}}

Quiet == \A r \in Requests : req[r].pc # "done"

Return(r) ==
    /\ req[r].pc = "done"
    /\ req' = [req EXCEPT ![r] = BlankRequest]
    /\ UNCHANGED <<today, db, txn, lock, cookie, boot>>

Room ==
    Len(db.audit_log) - Len(boot.audit_log) + Cardinality(InFlight) < MaxAudit

Arrive(op) == [BlankRequest EXCEPT !.op = op, !.sess = cookie]

Respond(rq, resp) == [rq EXCEPT !.pc = "done", !.resp = resp]

Others == <<today, db, txn, lock, cookie, boot>>

(***************************************************************************)
(* A connection's writes.  sqlite3 opens a transaction before the first    *)
(* INSERT/DELETE of a connection: the statement takes the write lock and   *)
(* changes only that connection's image; commit installs the image and     *)
(* releases the lock.                                                      *)
(***************************************************************************)
\* (mutant for C5) a connection in autocommit mode: every statement commits
ExecuteAutocommit(r, image) ==
    /\ lock \in {None, r}
    /\ txn' = image
    /\ lock' = r
    /\ db' = image

Execute(r, image) ==
    /\ lock \in {None, r}
    /\ txn' = image
    /\ lock' = r
    /\ db' = db

\* (mutant for C19) the connection closed without conn.commit(): rolled back
CommitMissing(r) ==
    /\ lock = r
    /\ db' = db
    /\ txn' = db
    /\ lock' = None

Commit(r) ==
    /\ lock = r
    /\ db' = txn
    /\ txn' = txn
    /\ lock' = None

(***************************************************************************)
(* require_auth: the decorator's test, and its rejection of a protected    *)
(* operation (the wrapped handler is not called).                          *)
(***************************************************************************)
Protected ==
    {"logout", "add_member", "delete_member", "update_weekly_leaderboard",
     "update_monthly_leaderboard", "delete_weekly_entry",
     "delete_monthly_entry"}

\* (mutant for C1) the decorator left off: every request passes
require_auth_missing(sess) == TRUE

require_auth(sess) == "user_id" \in DOMAIN sess

decorated_function(r) ==
    \E op \in Protected :
        /\ Free(r)
        /\ ~require_auth(cookie)
        /\ req' = [req EXCEPT ![r] = Respond(Arrive(op), AuthRequired)]
        /\ UNCHANGED Others

(***************************************************************************)
(* log_action: one INSERT into audit_log and its commit, on a connection   *)
(* of its own.  The INSERT takes the write lock and the commit, the next   *)
(* statement of that connection, releases it, so the two are one step;     *)
(* the handler then returns its success response, and the client's cookie  *)
(* is replaced if the handler modified the session.                        *)
(***************************************************************************)
SessionGet(sess, key, default) ==
    IF key \in DOMAIN sess THEN sess[key] ELSE default

AuditRow(sess, action, details) ==
    [admin_username |-> SessionGet(sess, "username", "system"),
     action |-> action, details |-> details]

\* (mutant for C11) the newest audit row overwritten instead of a row added
InsertAuditLogOverwriting(audit_log, row) ==
    IF audit_log = <<>>
    THEN <<row>>
    ELSE [audit_log EXCEPT ![Len(audit_log)] = row]

InsertAuditLog(audit_log, row) == Append(audit_log, row)

log_action(r) ==
    /\ req[r].pc = "log"
    /\ lock = None
    /\ db' = [db EXCEPT !.audit_log =
                 InsertAuditLog(@, AuditRow(req[r].sess, req[r].action,
                                            req[r].details))]
    /\ txn' = db'
    /\ req' = [req EXCEPT ![r] = Respond(@, Ok(@.data))]
    /\ cookie' = IF req[r].modified THEN req[r].sess ELSE cookie
    /\ UNCHANGED <<today, lock, boot>>

(***************************************************************************)
(* /api/auth/login, /api/auth/logout, /api/auth/status                     *)
(***************************************************************************)
\* (mutant for C8) the account is looked up by username alone
MatchingUsersByName(username, password) ==
    {u \in db.admin_users : u.username = username}

MatchingUsers(username, password) ==
    {u \in db.admin_users :
        u.username = username /\ u.password_hash = hash_password(password)}

login(r) ==
    \E username \in Usernames, password \in Passwords :
        /\ Free(r)
        /\ LET rq == [Arrive("login") EXCEPT
                         !.name = username, !.password = password]
               found == MatchingUsers(username, password)
           IN  \/ /\ username = "" \/ password = ""
                  /\ req' = [req EXCEPT ![r] =
                        Respond(rq, Err(400, "Username and password required"))]
               \/ /\ username # "" /\ password # ""
                  /\ found = {}
                  /\ req' = [req EXCEPT ![r] =
                        Respond(rq, Err(401, "Invalid credentials"))]
               \/ /\ username # "" /\ password # ""
                  /\ Room
                  /\ \E user \in found :
                        req' = [req EXCEPT ![r] =
                           [rq EXCEPT
                              !.sess = [user_id |-> user.id,
                                        username |-> user.username,
                                        role |-> user.role],
                              !.modified = TRUE,
                              !.action = "LOGIN",
                              !.details = <<username, "logged in">>,
                              !.data = [username |-> user.username,
                                        role |-> user.role],
                              !.pc = "log"]]
        /\ UNCHANGED Others

\* (mutant for C9) session.clear() left out
session_clear_missing(sess) == sess

session_clear(sess) == EmptySession

logout(r) ==
    /\ Free(r)
    /\ require_auth(cookie)
    /\ Room
    /\ LET rq == Arrive("logout")
           username == SessionGet(rq.sess, "username", None)
       IN  req' = [req EXCEPT ![r] =
                [rq EXCEPT !.sess = session_clear(rq.sess),
                           !.modified = TRUE,
                           !.action = "LOGOUT",
                           !.details = <<username, "logged out">>,
                           !.pc = "log"]]
    /\ UNCHANGED Others

auth_status(r) ==
    /\ Free(r)
    /\ LET rq == Arrive("auth_status")
       IN  req' = [req EXCEPT ![r] =
                IF "user_id" \in DOMAIN rq.sess
                THEN Respond(rq, Ok([authenticated |-> TRUE,
                                     user |-> [username |-> SessionGet(rq.sess, "username", None),
                                               role |-> SessionGet(rq.sess, "role", None)]]))
                ELSE Respond(rq, Ok([authenticated |-> FALSE]))]
    /\ UNCHANGED Others

(***************************************************************************)
(* The leaderboard queries.  members LEFT JOIN the stat table on the       *)
(* member id and the period: one joined row per matching stat row, and     *)
(* for a member without one a row of NULLs, which COALESCE turns into 0.   *)
(* ORDER BY ... DESC fixes the order of rows only where the expression     *)
(* differs: every order it allows is a possible result.                    *)
(***************************************************************************)
\* (mutant for C6) JOIN instead of LEFT JOIN: members without a row drop out
WeeklyJoinInner(d, week_start) ==
    LET match(m) == {x \in Rows(d.weekly_leaderboard) :
                        m.id = x.member_id /\ x.week_start = week_start}
        hits == UNION {{[m |-> m, x |-> x] : x \in match(m)} : m \in d.members}
        ent(h) == [id |-> h.m.id, name |-> h.m.name,
                   sessionsAttended |-> h.x.sessions_attended,
                   assessmentsSubmitted |-> h.x.assessments_submitted,
                   bonusPoints |-> h.x.bonus_points]
    IN  [e \in {ent(h) : h \in hits} |->
            d.weekly_leaderboard[(CHOOSE h \in hits : ent(h) = e).x]]

WeeklyJoin(d, week_start) ==
    LET match(m) == {x \in Rows(d.weekly_leaderboard) :
                        m.id = x.member_id /\ x.week_start = week_start}
        hits == UNION {{[m |-> m, x |-> x] : x \in match(m)} : m \in d.members}
        ent(h) == [id |-> h.m.id, name |-> h.m.name,
                   sessionsAttended |-> h.x.sessions_attended,
                   assessmentsSubmitted |-> h.x.assessments_submitted,
                   bonusPoints |-> h.x.bonus_points]
        zero(m) == [id |-> m.id, name |-> m.name, sessionsAttended |-> 0,
                    assessmentsSubmitted |-> 0, bonusPoints |-> 0]
        miss == {m \in d.members : match(m) = {}}
    IN  [e \in {ent(h) : h \in hits} \cup {zero(m) : m \in miss} |->
            IF \E h \in hits : ent(h) = e
            THEN d.weekly_leaderboard[(CHOOSE h \in hits : ent(h) = e).x]
            ELSE 1]

MonthlyJoin(d, month_year) ==
    LET match(m) == {x \in Rows(d.monthly_leaderboard) :
                        m.id = x.member_id /\ x.month_year = month_year}
        hits == UNION {{[m |-> m, x |-> x] : x \in match(m)} : m \in d.members}
        ent(h) == [id |-> h.m.id, name |-> h.m.name,
                   sessionsAttended |-> h.x.sessions_attended,
                   assessmentsSubmitted |-> h.x.assessments_submitted,
                   bonusPoints |-> h.x.bonus_points]
        zero(m) == [id |-> m.id, name |-> m.name, sessionsAttended |-> 0,
                    assessmentsSubmitted |-> 0, bonusPoints |-> 0]
        miss == {m \in d.members : match(m) = {}}
    IN  [e \in {ent(h) : h \in hits} \cup {zero(m) : m \in miss} |->
            IF \E h \in hits : ent(h) = e
            THEN d.monthly_leaderboard[(CHOOSE h \in hits : ent(h) = e).x]
            ELSE 1]

\* (mutant for C7) the two weights exchanged in the ORDER BY expression
WeeklyOrderBySwapped(e) ==
    e.sessionsAttended * 20 + e.assessmentsSubmitted * 10 + e.bonusPoints

WeeklyOrderBy(e) ==
    e.sessionsAttended * 10 + e.assessmentsSubmitted * 20 + e.bonusPoints

MonthlyOrderBy(e) ==
    e.sessionsAttended * 10 + e.assessmentsSubmitted * 20 + e.bonusPoints

\* the sequences that hold the rows of bag J in an order with key descending
Descending(J, key) ==
    {s \in [1 .. BagCardinality(J) -> DOMAIN J] :
        /\ \A e \in DOMAIN J : Cardinality({i \in DOMAIN s : s[i] = e}) = J[e]
        /\ \A i, j \in DOMAIN s : i < j => key[s[i]] >= key[s[j]]}

\* the handler's loop: each row with its totalPoints
WithTotalPoints(rows) ==
    [i \in DOMAIN rows |->
        [id |-> rows[i].id, name |-> rows[i].name,
         sessionsAttended |-> rows[i].sessionsAttended,
         assessmentsSubmitted |-> rows[i].assessmentsSubmitted,
         bonusPoints |-> rows[i].bonusPoints,
         totalPoints |-> calculate_points(rows[i].sessionsAttended,
                                          rows[i].assessmentsSubmitted,
                                          rows[i].bonusPoints)]]

WeeklyLeaderboards(d, week_start) ==
    {WithTotalPoints(rows) :
        rows \in Descending(WeeklyJoin(d, week_start),
                             [e \in DOMAIN WeeklyJoin(d, week_start) |->
                                 WeeklyOrderBy(e)])}

MonthlyLeaderboards(d, month_year) ==
    {WithTotalPoints(rows) :
        rows \in Descending(MonthlyJoin(d, month_year),
                             [e \in DOMAIN MonthlyJoin(d, month_year) |->
                                 MonthlyOrderBy(e)])}

get_weekly_leaderboard(r) ==
    \/ /\ Free(r)
       /\ req' = [req EXCEPT ![r] =
             [Arrive("get_weekly_leaderboard") EXCEPT
                 !.period = get_week_start(today), !.pc = "query"]]
       /\ UNCHANGED Others
    \/ /\ req[r].op = "get_weekly_leaderboard"
       /\ req[r].pc = "query"
       /\ \E data \in WeeklyLeaderboards(db, req[r].period) :
             req' = [req EXCEPT ![r] = Respond(@, Ok(data))]
       /\ UNCHANGED Others

get_monthly_leaderboard(r) ==
    \/ /\ Free(r)
       /\ req' = [req EXCEPT ![r] =
             [Arrive("get_monthly_leaderboard") EXCEPT
                 !.period = get_month_year(today), !.pc = "query"]]
       /\ UNCHANGED Others
    \/ /\ req[r].op = "get_monthly_leaderboard"
       /\ req[r].pc = "query"
       /\ \E data \in MonthlyLeaderboards(db, req[r].period) :
             req' = [req EXCEPT ![r] = Respond(@, Ok(data))]
       /\ UNCHANGED Others

(***************************************************************************)
(* /api/members: SELECT id, name, avatar FROM members ORDER BY name.       *)
(* Collate gives the position of a name in the (binary) collation.         *)
(***************************************************************************)
Collate(name) ==
    CASE name = "Alice" -> 1 [] name = "Bob" -> 2 [] name = "Carol" -> 3

MembersByName(d) ==
    {s \in [1 .. Cardinality(d.members) -> d.members] :
        /\ \A m \in d.members : \E i \in DOMAIN s : s[i] = m
        /\ \A i, j \in DOMAIN s : i < j => Collate(s[i].name) <= Collate(s[j].name)}

get_members(r) ==
    /\ Free(r)
    /\ \E data \in MembersByName(db) :
          req' = [req EXCEPT ![r] = Respond(Arrive("get_members"), Ok(data))]
    /\ UNCHANGED Others

(***************************************************************************)
(* /api/admin/members (POST).  Bound: at most MaxMembers ids are given.    *)
(***************************************************************************)
\* (mutant for C12) members.name without its UNIQUE constraint
NameTakenNever(d, name) == FALSE

\* the UNIQUE constraint on members.name, as the INSERT tests it
NameTaken(d, name) == \E m \in d.members : m.name = name

Inserting ==
    {q \in Requests : req[q].op = "add_member" /\ req[q].pc \in {"insert", "commit"}}

add_member(r) ==
    \/ \E name \in MemberNames :
          /\ Free(r)
          /\ require_auth(cookie)
          /\ Room
          /\ db.member_seq + Cardinality(Inserting) < MaxMembers
          /\ LET rq == [Arrive("add_member") EXCEPT !.name = name]
             IN  req' = [req EXCEPT ![r] =
                    IF name = ""
                    THEN Respond(rq, Err(400, "Name is required"))
                    ELSE [rq EXCEPT !.pc = "insert"]]
          /\ UNCHANGED Others
    \/ /\ req[r].op = "add_member"
       /\ req[r].pc = "insert"
       /\ lock = None
       /\ NameTaken(db, req[r].name)
       /\ req' = [req EXCEPT ![r] = Respond(@, Err(400, "Member already exists"))]
       /\ UNCHANGED Others
    \/ /\ req[r].op = "add_member"
       /\ req[r].pc = "insert"
       /\ lock = None
       /\ ~NameTaken(db, req[r].name)
       /\ LET member_id == db.member_seq + 1
          IN  /\ Execute(r, [db EXCEPT
                     !.members = @ \cup {[id |-> member_id, name |-> req[r].name]},
                     !.member_seq = member_id])
              /\ req' = [req EXCEPT ![r].member_id = member_id, ![r].pc = "commit"]
       /\ UNCHANGED <<today, cookie, boot>>
    \/ /\ req[r].op = "add_member"
       /\ req[r].pc = "commit"
       /\ Commit(r)
       /\ req' = [req EXCEPT ![r] =
             [@ EXCEPT !.action = "ADD_MEMBER",
                       !.details = <<"Added member", req[r].name, req[r].member_id>>,
                       !.data = [id |-> req[r].member_id, name |-> req[r].name],
                       !.pc = "log"]]
       /\ UNCHANGED <<today, cookie, boot>>

(***************************************************************************)
(* /api/admin/leaderboard/weekly/update, .../monthly/update                *)
(* member_id 0 stands for a body without member_id (or with 0).            *)
(***************************************************************************)
update_weekly_leaderboard(r) ==
    \/ \E member_id \in MemberIds, vals \in StatInputs :
          /\ Free(r)
          /\ require_auth(cookie)
          /\ Room
          /\ LET rq == [Arrive("update_weekly_leaderboard") EXCEPT
                           !.member_id = member_id, !.vals = vals]
             IN  req' = [req EXCEPT ![r] =
                    IF member_id = 0
                    THEN Respond(rq, Err(400, "member_id is required"))
                    ELSE [rq EXCEPT !.period = get_week_start(today),
                                    !.pc = "lookup"]]
          /\ UNCHANGED Others
    \/ /\ req[r].op = "update_weekly_leaderboard"
       /\ req[r].pc = "lookup"
       /\ LET member == SelectMemberName(db, req[r].member_id)
          IN  req' = [req EXCEPT ![r] =
                 IF member = None
                 THEN Respond(@, Err(404, "Member not found"))
                 ELSE [@ EXCEPT !.member = member, !.pc = "upsert"]]
       /\ UNCHANGED Others
    \/ /\ req[r].op = "update_weekly_leaderboard"
       /\ req[r].pc = "upsert"
       /\ Execute(r, [db EXCEPT !.weekly_leaderboard =
                     UpsertWeekly(@, req[r].member_id, req[r].vals, req[r].period)])
       /\ req' = [req EXCEPT ![r].pc = "commit"]
       /\ UNCHANGED <<today, cookie, boot>>
    \/ /\ req[r].op = "update_weekly_leaderboard"
       /\ req[r].pc = "commit"
       /\ Commit(r)
       /\ req' = [req EXCEPT ![r] =
             [@ EXCEPT !.action = "UPDATE_WEEKLY",
                       !.details = <<"Updated weekly stats for", req[r].member>>,
                       !.pc = "log"]]
       /\ UNCHANGED <<today, cookie, boot>>

update_monthly_leaderboard(r) ==
    \/ \E member_id \in MemberIds, vals \in StatInputs :
          /\ Free(r)
          /\ require_auth(cookie)
          /\ Room
          /\ LET rq == [Arrive("update_monthly_leaderboard") EXCEPT
                           !.member_id = member_id, !.vals = vals]
             IN  req' = [req EXCEPT ![r] =
                    IF member_id = 0
                    THEN Respond(rq, Err(400, "member_id is required"))
                    ELSE [rq EXCEPT !.period = get_month_year(today),
                                    !.pc = "lookup"]]
          /\ UNCHANGED Others
    \/ /\ req[r].op = "update_monthly_leaderboard"
       /\ req[r].pc = "lookup"
       /\ LET member == SelectMemberName(db, req[r].member_id)
          IN  req' = [req EXCEPT ![r] =
                 IF member = None
                 THEN Respond(@, Err(404, "Member not found"))
                 ELSE [@ EXCEPT !.member = member, !.pc = "upsert"]]
       /\ UNCHANGED Others
    \/ /\ req[r].op = "update_monthly_leaderboard"
       /\ req[r].pc = "upsert"
       /\ Execute(r, [db EXCEPT !.monthly_leaderboard =
                     UpsertMonthly(@, req[r].member_id, req[r].vals, req[r].period)])
       /\ req' = [req EXCEPT ![r].pc = "commit"]
       /\ UNCHANGED <<today, cookie, boot>>
    \/ /\ req[r].op = "update_monthly_leaderboard"
       /\ req[r].pc = "commit"
       /\ Commit(r)
       /\ req' = [req EXCEPT ![r] =
             [@ EXCEPT !.action = "UPDATE_MONTHLY",
                       !.details = <<"Updated monthly stats for", req[r].member>>,
                       !.pc = "log"]]
       /\ UNCHANGED <<today, cookie, boot>>

(***************************************************************************)
(* /api/admin/members/<id> (DELETE)                                        *)
(***************************************************************************)
delete_member(r) ==
    \/ \E member_id \in MemberIds :
          /\ Free(r)
          /\ require_auth(cookie)
          /\ Room
          /\ req' = [req EXCEPT ![r] =
                [Arrive("delete_member") EXCEPT
                    !.member_id = member_id, !.pc = "lookup"]]
          /\ UNCHANGED Others
    \/ /\ req[r].op = "delete_member"
       /\ req[r].pc = "lookup"
       /\ LET member == SelectMemberName(db, req[r].member_id)
          IN  req' = [req EXCEPT ![r] =
                 IF member = None
                 THEN Respond(@, Err(404, "Member not found"))
                 ELSE [@ EXCEPT !.member = member, !.pc = "delete_weekly"]]
       /\ UNCHANGED Others
    \/ /\ req[r].op = "delete_member"
       /\ req[r].pc = "delete_weekly"
       /\ Execute(r, [db EXCEPT !.weekly_leaderboard =
                     DeleteByMember(@, req[r].member_id)])
       /\ req' = [req EXCEPT ![r].pc = "delete_monthly"]
       /\ UNCHANGED <<today, cookie, boot>>
    \/ /\ req[r].op = "delete_member"
       /\ req[r].pc = "delete_monthly"
       /\ Execute(r, [txn EXCEPT !.monthly_leaderboard =
                     DeleteByMember(@, req[r].member_id)])
       /\ req' = [req EXCEPT ![r].pc = "delete_members"]
       /\ UNCHANGED <<today, cookie, boot>>
    \/ /\ req[r].op = "delete_member"
       /\ req[r].pc = "delete_members"
       /\ Execute(r, [txn EXCEPT !.members = DeleteMemberRow(@, req[r].member_id)])
       /\ req' = [req EXCEPT ![r].pc = "commit"]
       /\ UNCHANGED <<today, cookie, boot>>
    \/ /\ req[r].op = "delete_member"
       /\ req[r].pc = "commit"
       /\ Commit(r)
       /\ req' = [req EXCEPT ![r] =
             [@ EXCEPT !.action = "DELETE_MEMBER",
                       !.details = <<"Deleted member", req[r].member, req[r].member_id>>,
                       !.pc = "log"]]
       /\ UNCHANGED <<today, cookie, boot>>

(***************************************************************************)
(* /api/admin/leaderboard/weekly/<id>, .../monthly/<id> (DELETE)           *)
(***************************************************************************)
delete_weekly_entry(r) ==
    \/ \E member_id \in MemberIds :
          /\ Free(r)
          /\ require_auth(cookie)
          /\ Room
          /\ req' = [req EXCEPT ![r] =
                [Arrive("delete_weekly_entry") EXCEPT
                    !.member_id = member_id,
                    !.period = get_week_start(today), !.pc = "lookup"]]
          /\ UNCHANGED Others
    \/ /\ req[r].op = "delete_weekly_entry"
       /\ req[r].pc = "lookup"
       /\ LET found == {x \in Rows(db.weekly_leaderboard) :
                           x.member_id = req[r].member_id
                           /\ x.week_start = req[r].period}
          IN  req' = [req EXCEPT ![r] =
                 IF found = {}
                 THEN Respond(@, Err(404, "Entry not found"))
                 ELSE [@ EXCEPT !.pc = "delete"]]
       /\ UNCHANGED Others
    \/ /\ req[r].op = "delete_weekly_entry"
       /\ req[r].pc = "delete"
       /\ Execute(r, [db EXCEPT !.weekly_leaderboard =
                     DeleteWeeklyRow(@, req[r].member_id, req[r].period)])
       /\ req' = [req EXCEPT ![r].pc = "commit"]
       /\ UNCHANGED <<today, cookie, boot>>
    \/ /\ req[r].op = "delete_weekly_entry"
       /\ req[r].pc = "commit"
       /\ Commit(r)
       /\ req' = [req EXCEPT ![r] =
             [@ EXCEPT !.action = "DELETE_WEEKLY",
                       !.details = <<"Deleted weekly stats for member ID", req[r].member_id>>,
                       !.pc = "log"]]
       /\ UNCHANGED <<today, cookie, boot>>

\* (mutant for C10) the tag copied from delete_weekly_entry
DeleteMonthlyTagCopied == "DELETE_WEEKLY"

DeleteMonthlyTag == "DELETE_MONTHLY"

delete_monthly_entry(r) ==
    \/ \E member_id \in MemberIds :
          /\ Free(r)
          /\ require_auth(cookie)
          /\ Room
          /\ req' = [req EXCEPT ![r] =
                [Arrive("delete_monthly_entry") EXCEPT
                    !.member_id = member_id,
                    !.period = get_month_year(today), !.pc = "lookup"]]
          /\ UNCHANGED Others
    \/ /\ req[r].op = "delete_monthly_entry"
       /\ req[r].pc = "lookup"
       /\ LET found == {x \in Rows(db.monthly_leaderboard) :
                           x.member_id = req[r].member_id
                           /\ x.month_year = req[r].period}
          IN  req' = [req EXCEPT ![r] =
                 IF found = {}
                 THEN Respond(@, Err(404, "Entry not found"))
                 ELSE [@ EXCEPT !.pc = "delete"]]
       /\ UNCHANGED Others
    \/ /\ req[r].op = "delete_monthly_entry"
       /\ req[r].pc = "delete"
       /\ Execute(r, [db EXCEPT !.monthly_leaderboard =
                     DeleteMonthlyRow(@, req[r].member_id, req[r].period)])
       /\ req' = [req EXCEPT ![r].pc = "commit"]
       /\ UNCHANGED <<today, cookie, boot>>
    \/ /\ req[r].op = "delete_monthly_entry"
       /\ req[r].pc = "commit"
       /\ Commit(r)
       /\ req' = [req EXCEPT ![r] =
             [@ EXCEPT !.action = DeleteMonthlyTag,
                       !.details = <<"Deleted monthly stats for member ID", req[r].member_id>>,
                       !.pc = "log"]]
       /\ UNCHANGED <<today, cookie, boot>>

(***************************************************************************)
(* The wall clock.                                                         *)
(***************************************************************************)
Tick ==
    /\ today < MaxDay
    /\ today' = today + 1
    /\ UNCHANGED <<db, txn, lock, cookie, req, boot>>

(***************************************************************************)
(* Spec: the whole service, two requests of one client at a time.          *)
(***************************************************************************)
Next ==
    \/ \E r \in Requests : Return(r)
    \/ Quiet /\ Tick
    \/ Quiet /\ \E r \in Requests :
          \/ decorated_function(r)
          \/ log_action(r)
          \/ login(r)
          \/ logout(r)
          \/ auth_status(r)
          \/ get_weekly_leaderboard(r)
          \/ get_monthly_leaderboard(r)
          \/ get_members(r)
          \/ add_member(r)
          \/ update_weekly_leaderboard(r)
          \/ update_monthly_leaderboard(r)
          \/ delete_member(r)
          \/ delete_weekly_entry(r)
          \/ delete_monthly_entry(r)

Spec == Init /\ [][Next]_vars

(***************************************************************************)
(* SpecAuth: the authentication routes and one protected route alone.      *)
(***************************************************************************)
NextAuth ==
    \/ \E r \in Requests : Return(r)
    \/ Quiet /\ \E r \in Requests :
          \/ decorated_function(r)
          \/ log_action(r)
          \/ login(r)
          \/ logout(r)
          \/ auth_status(r)
          \/ add_member(r)

SpecAuth == Init /\ [][NextAuth]_vars

(***************************************************************************)
(* SpecScoring: the scoring function on its own.  The process starts on a  *)
(* database in which an earlier run left the two members weekly rows with  *)
(* any counters up to MaxScoreArg, and serves the weekly leaderboard,      *)
(* whose loop applies calculate_points to every row.                       *)
(***************************************************************************)
MaxScoreArg == 2

ScoreArgs == 0 .. MaxScoreArg

ScoredRun ==
    {[EarlierRun EXCEPT !.weekly_leaderboard =
         SetToBag({WeeklyRow(1, v1, get_week_start(0)),
                   WeeklyRow(2, v2, get_week_start(0))})] :
        v1 \in ScoreArgs \X ScoreArgs \X ScoreArgs,
        v2 \in ScoreArgs \X ScoreArgs \X ScoreArgs}

InitScoring ==
    /\ today = 0
    /\ boot \in ScoredRun
    /\ db = boot
    /\ txn = boot
    /\ lock = None
    /\ cookie = EmptySession
    /\ req = [r \in Requests |-> BlankRequest]

NextScoring ==
    \/ \E r \in Requests : Return(r)
    \/ Quiet /\ \E r \in Requests : get_weekly_leaderboard(r)

SpecScoring == InitScoring /\ [][NextScoring]_vars

(***************************************************************************)
(* Properties.                                                             *)
(***************************************************************************)
Arrives(r) == req[r].pc = "idle" /\ req'[r].pc # "idle"

Responds(r) == req[r].pc # "done" /\ req'[r].pc = "done"

IdsOf(d) == {m.id : m \in d.members}

ProtectedRoutes ==
    {"logout", "add_member", "delete_member", "update_weekly_leaderboard",
     "update_monthly_leaderboard", "delete_weekly_entry",
     "delete_monthly_entry"}

\* C1: a protected operation that arrives without user_id in its session
\* is answered at once with 401 / AUTH_REQUIRED: its body never runs, and
\* the database (members, both stat tables, audit log), any open
\* transaction and the client's session are unchanged.
C1_AuthRequired ==
    [][\A r \in Requests :
          (Arrives(r) /\ req'[r].op \in ProtectedRoutes
                      /\ "user_id" \notin DOMAIN cookie)
          => /\ req'[r].pc = "done"
             /\ req'[r].resp.status = 401
             /\ req'[r].resp.code = "AUTH_REQUIRED"
             /\ db' = db
             /\ txn' = txn
             /\ lock' = lock
             /\ cookie' = cookie]_vars

C1_Witness ==
    \E r \in Requests :
        /\ req[r].pc = "done"
        /\ req[r].op = "delete_member"
        /\ req[r].resp.code = "AUTH_REQUIRED"
        /\ "user_id" \notin DOMAIN cookie
        /\ db.members # {}

\* C2: whenever no request is in flight, every row of weekly_leaderboard
\* and of monthly_leaderboard belongs to an existing member.
C2_NoOrphanRows ==
    (\A r \in Requests : req[r].pc = "idle")
    => /\ \A x \in Rows(db.weekly_leaderboard) : x.member_id \in IdsOf(db)
       /\ \A x \in Rows(db.monthly_leaderboard) : x.member_id \in IdsOf(db)

\* C3: each stat table holds at most one row per (member_id, period), in
\* the committed database and in any open transaction; and when an upsert
\* commits, the one row of its (member, period) carries exactly that
\* upsert's three values.
UniqueKeys(d) ==
    /\ \A x \in Rows(d.weekly_leaderboard) : d.weekly_leaderboard[x] = 1
    /\ \A x, y \in Rows(d.weekly_leaderboard) :
          (x.member_id = y.member_id /\ x.week_start = y.week_start) => x = y
    /\ \A x \in Rows(d.monthly_leaderboard) : d.monthly_leaderboard[x] = 1
    /\ \A x, y \in Rows(d.monthly_leaderboard) :
          (x.member_id = y.member_id /\ x.month_year = y.month_year) => x = y

UpsertCommits(r, op) ==
    req[r].op = op /\ req[r].pc = "commit" /\ req'[r].pc = "log"

C3_UpsertReplaces ==
    /\ [](UniqueKeys(db) /\ UniqueKeys(txn))
    /\ [][\A r \in Requests :
            /\ UpsertCommits(r, "update_weekly_leaderboard")
               => {x \in Rows(db'.weekly_leaderboard) :
                      x.member_id = req[r].member_id
                      /\ x.week_start = req[r].period}
                  = {[member_id |-> req[r].member_id,
                      sessions_attended |-> req[r].vals[1],
                      assessments_submitted |-> req[r].vals[2],
                      bonus_points |-> req[r].vals[3],
                      week_start |-> req[r].period]}
            /\ UpsertCommits(r, "update_monthly_leaderboard")
               => {x \in Rows(db'.monthly_leaderboard) :
                      x.member_id = req[r].member_id
                      /\ x.month_year = req[r].period}
                  = {[member_id |-> req[r].member_id,
                      sessions_attended |-> req[r].vals[1],
                      assessments_submitted |-> req[r].vals[2],
                      bonus_points |-> req[r].vals[3],
                      month_year |-> req[r].period]}]_vars

\* two upserts of the same (member, week) with different values have both
\* committed, and one row is there
C3_Witness ==
    /\ req["r1"].op = "update_weekly_leaderboard"
    /\ req["r2"].op = "update_weekly_leaderboard"
    /\ req["r1"].pc = "log"
    /\ req["r2"].pc = "log"
    /\ req["r1"].member_id = req["r2"].member_id
    /\ req["r1"].period = req["r2"].period
    /\ req["r1"].vals # req["r2"].vals
    /\ Cardinality({x \in Rows(db.weekly_leaderboard) :
                       x.member_id = req["r1"].member_id
                       /\ x.week_start = req["r1"].period}) = 1

\* C4: the commit of delete_member(id) leaves no member with that id and
\* no row with that member_id in either stat table, whatever its period;
\* an id is never given to a later member; and once the deletion is in the
\* audit log, no member list and no leaderboard the service can return, or
\* returns, has an entry for the id.
DeletedIds ==
    {db.audit_log[i].details[3] :
        i \in {j \in DOMAIN db.audit_log :
                  db.audit_log[j].action = "DELETE_MEMBER"}}

C4_DeleteMemberRemoves ==
    /\ [][\A r \in Requests :
            (req[r].op = "delete_member" /\ req[r].pc = "commit"
                                         /\ req'[r].pc = "log")
            => /\ req[r].member_id \notin IdsOf(db')
               /\ \A x \in Rows(db'.weekly_leaderboard) :
                     x.member_id # req[r].member_id
               /\ \A x \in Rows(db'.monthly_leaderboard) :
                     x.member_id # req[r].member_id]_vars
    /\ [][\A m \in db'.members \ db.members : m.id \notin IdsOf(db)
                                              /\ m.id > db.member_seq]_vars
    /\ [](\A id \in DeletedIds :
            /\ id \notin IdsOf(db)
            /\ id <= db.member_seq
            /\ \A data \in MembersByName(db) :
                  \A i \in DOMAIN data : data[i].id # id
            /\ \A data \in WeeklyLeaderboards(db, get_week_start(today)) :
                  \A i \in DOMAIN data : data[i].id # id
            /\ \A data \in MonthlyLeaderboards(db, get_month_year(today)) :
                  \A i \in DOMAIN data : data[i].id # id
            /\ \A r \in Requests :
                  (req[r].pc = "done" /\ req[r].resp.status = 200
                   /\ req[r].op \in {"get_members", "get_weekly_leaderboard",
                                     "get_monthly_leaderboard"})
                  => \A i \in DOMAIN req[r].resp.data :
                        req[r].resp.data[i].id # id)

\* Alice (who had stat rows) and Bob (who never had one) are both deleted,
\* and the member list is then returned
C4_Witness ==
    /\ boot = EarlierRun
    /\ DeletedIds = {1, 2}
    /\ \E r \in Requests : req[r].pc = "done" /\ req[r].op = "get_members"

\* C5: the committed database changes for a delete_member only at its
\* commit, and there by all three deletions at once (and by nothing else);
\* the statements before the commit leave the committed database, which is
\* all that another request can read, as it was.
InDeleteTransaction(r) ==
    /\ req[r].op = "delete_member"
    /\ req[r].pc \in {"delete_weekly", "delete_monthly", "delete_members", "commit"}

C5_DeleteAtomic ==
    [][\A r \in Requests :
          (InDeleteTransaction(r) /\ req'[r].pc # req[r].pc)
          => IF req'[r].pc = "log"
             THEN db' = [db EXCEPT
                     !.members = {m \in @ : m.id # req[r].member_id},
                     !.weekly_leaderboard =
                        [x \in {y \in DOMAIN @ : y.member_id # req[r].member_id}
                           |-> @[x]],
                     !.monthly_leaderboard =
                        [x \in {y \in DOMAIN @ : y.member_id # req[r].member_id}
                           |-> @[x]]]
             ELSE db' = db]_vars

\* a delete of Alice, who had rows in both tables, has committed while
\* another request is under way
C5_Witness ==
    \E r, q \in Requests :
        /\ r # q
        /\ req[r].op = "delete_member"
        /\ req[r].pc = "log"
        /\ req[r].member_id = 1
        /\ boot = EarlierRun
        /\ 1 \notin IdsOf(db)
        /\ db.weekly_leaderboard = EmptyTable
        /\ db.monthly_leaderboard = EmptyTable
        /\ req[q].pc \notin {"idle", "done"}

\* C6: every weekly (monthly) leaderboard the service can return in a
\* reachable state, and every one it returns, has exactly one entry for
\* each existing member and none for anyone else; a member without a row
\* for the period of the query appears with sessions, assessments, bonus
\* and totalPoints all 0.
WeeklyComplete(data, d, week_start) ==
    /\ \A m \in d.members :
          Cardinality({i \in DOMAIN data : data[i].id = m.id}) = 1
    /\ \A i \in DOMAIN data :
          /\ \E m \in d.members : m.id = data[i].id /\ m.name = data[i].name
          /\ (~ \E x \in Rows(d.weekly_leaderboard) :
                   x.member_id = data[i].id /\ x.week_start = week_start)
             => /\ data[i].sessionsAttended = 0
                /\ data[i].assessmentsSubmitted = 0
                /\ data[i].bonusPoints = 0
                /\ data[i].totalPoints = 0

MonthlyComplete(data, d, month_year) ==
    /\ \A m \in d.members :
          Cardinality({i \in DOMAIN data : data[i].id = m.id}) = 1
    /\ \A i \in DOMAIN data :
          /\ \E m \in d.members : m.id = data[i].id /\ m.name = data[i].name
          /\ (~ \E x \in Rows(d.monthly_leaderboard) :
                   x.member_id = data[i].id /\ x.month_year = month_year)
             => /\ data[i].sessionsAttended = 0
                /\ data[i].assessmentsSubmitted = 0
                /\ data[i].bonusPoints = 0
                /\ data[i].totalPoints = 0

Answered(r, op) ==
    req[r].pc = "done" /\ req[r].op = op /\ req[r].resp.status = 200

C6_EveryMemberOnce ==
    /\ \A data \in WeeklyLeaderboards(db, get_week_start(today)) :
          WeeklyComplete(data, db, get_week_start(today))
    /\ \A data \in MonthlyLeaderboards(db, get_month_year(today)) :
          MonthlyComplete(data, db, get_month_year(today))
    /\ \A r \in Requests :
          /\ Answered(r, "get_weekly_leaderboard")
             => WeeklyComplete(req[r].resp.data, db, req[r].period)
          /\ Answered(r, "get_monthly_leaderboard")
             => MonthlyComplete(req[r].resp.data, db, req[r].period)

\* a weekly leaderboard is returned that lists a member with points and a
\* member without a row for the week, at zero
C6_Witness ==
    \E r \in Requests :
        /\ Answered(r, "get_weekly_leaderboard")
        /\ Len(req[r].resp.data) = 2
        /\ req[r].resp.data[1].totalPoints > 0
        /\ req[r].resp.data[2].totalPoints = 0
        /\ ~ \E x \in Rows(db.weekly_leaderboard) :
                x.member_id = req[r].resp.data[2].id
                /\ x.week_start = req[r].period

\* C7: in every leaderboard returned, totalPoints never increases from one
\* entry to the next, and each entry's totalPoints is 10*sessions +
\* 20*assessments + bonus of that member's row for the period of the query
\* (0 without a row).
Pointwise(total, rows) ==
    IF rows = {}
    THEN total = 0
    ELSE \E x \in rows :
            total = 10 * x.sessions_attended + 20 * x.assessments_submitted
                    + x.bonus_points

NonIncreasing(data) ==
    \A i, j \in DOMAIN data : i < j => data[i].totalPoints >= data[j].totalPoints

C7_RankedByScore ==
    \A r \in Requests :
        /\ Answered(r, "get_weekly_leaderboard")
           => /\ NonIncreasing(req[r].resp.data)
              /\ \A i \in DOMAIN req[r].resp.data :
                    Pointwise(req[r].resp.data[i].totalPoints,
                              {x \in Rows(db.weekly_leaderboard) :
                                  x.member_id = req[r].resp.data[i].id
                                  /\ x.week_start = req[r].period})
        /\ Answered(r, "get_monthly_leaderboard")
           => /\ NonIncreasing(req[r].resp.data)
              /\ \A i \in DOMAIN req[r].resp.data :
                    Pointwise(req[r].resp.data[i].totalPoints,
                              {x \in Rows(db.monthly_leaderboard) :
                                  x.member_id = req[r].resp.data[i].id
                                  /\ x.month_year = req[r].period})

\* a weekly leaderboard is returned with two different positive scores
C7_Witness ==
    \E r \in Requests :
        /\ Answered(r, "get_weekly_leaderboard")
        /\ Len(req[r].resp.data) = 2
        /\ req[r].resp.data[1].totalPoints > req[r].resp.data[2].totalPoints
        /\ req[r].resp.data[2].totalPoints > 0

\* C8: a login answered 200 is one whose username and password digest
\* match a stored account, and the client then holds that account's
\* {user_id, username, role}; a login with both fields present that
\* matches no account is answered 401 "Invalid credentials"; and a login
\* not answered 200 leaves the client's session and the database (audit
\* log included) as they were.
Account(username, password) ==
    {u \in db.admin_users :
        /\ u.username = username
        /\ u.password_hash = hash_password(password)}

C8_Login ==
    /\ [](\A r \in Requests :
            (req[r].pc = "done" /\ req[r].op = "login")
            => IF req[r].name # "" /\ req[r].password # ""
                  /\ Account(req[r].name, req[r].password) # {}
               THEN /\ req[r].resp.status = 200
                    /\ \E u \in Account(req[r].name, req[r].password) :
                          cookie = [user_id |-> u.id, username |-> u.username,
                                    role |-> u.role]
               ELSE /\ req[r].resp.status \in {400, 401}
                    /\ (req[r].name # "" /\ req[r].password # "")
                       => /\ req[r].resp.status = 401
                          /\ req[r].resp.error = "Invalid credentials")
    /\ [][\A r \in Requests :
            (Responds(r) /\ req'[r].op = "login" /\ req'[r].resp.status # 200)
            => /\ cookie' = cookie
               /\ db' = db
               /\ req[r].pc = "idle"]_vars

\* a wrong password is refused while the client holds a session, and a
\* matching login has been answered in this run
C8_Witness ==
    \E r \in Requests :
        /\ req[r].pc = "done"
        /\ req[r].op = "login"
        /\ req[r].name = "admin"
        /\ req[r].password = "letmein"
        /\ req[r].resp.status = 401
        /\ "user_id" \in DOMAIN cookie

\* C9: a logout answered 200 leaves the client without a session and has
\* appended one audit entry, tagged LOGOUT; the client stays without a
\* session until a login is answered 200; and while it is without one,
\* every protected operation that arrives is answered 401 / AUTH_REQUIRED
\* and status reports authenticated = false.
C9_Logout ==
    /\ [](\A r \in Requests :
            (req[r].pc = "done" /\ req[r].op = "logout"
                                /\ req[r].resp.status = 200)
            => /\ cookie = EmptySession
               /\ db.audit_log # <<>>
               /\ db.audit_log[Len(db.audit_log)].action = "LOGOUT")
    /\ [][\A r \in Requests :
            (Responds(r) /\ req'[r].op = "logout" /\ req'[r].resp.status = 200)
            => Len(db'.audit_log) = Len(db.audit_log) + 1]_vars
    /\ [][("user_id" \notin DOMAIN cookie /\ "user_id" \in DOMAIN cookie')
          => \E r \in Requests :
                /\ Responds(r)
                /\ req'[r].op = "login"
                /\ req'[r].resp.status = 200]_vars
    /\ [][\A r \in Requests :
            (Arrives(r) /\ "user_id" \notin DOMAIN cookie)
            => /\ req'[r].op \in ProtectedRoutes
                  => /\ req'[r].pc = "done"
                     /\ req'[r].resp.status = 401
                     /\ req'[r].resp.code = "AUTH_REQUIRED"
               /\ req'[r].op = "auth_status"
                  => /\ req'[r].pc = "done"
                     /\ req'[r].resp.data = [authenticated |-> FALSE]]_vars

\* after a logout in this run, a protected operation is refused
C9_Witness ==
    /\ Len(db.audit_log) > Len(boot.audit_log)
    /\ db.audit_log[Len(db.audit_log)].action = "LOGOUT"
    /\ cookie = EmptySession
    /\ \E r \in Requests :
          /\ req[r].pc = "done"
          /\ req[r].op = "add_member"
          /\ req[r].resp.code = "AUTH_REQUIRED"

\* C10: the step that answers 200 to addMember, deleteMember, an upsert, a
\* stat delete or login appends exactly one audit entry, carrying that
\* operation's tag, and leaves the earlier entries in place; and the audit
\* log changes in no step other than the answer 200 to a request, so a
\* request appends nothing before that.
TagOf(op) ==
    CASE op = "login" -> "LOGIN"
      [] op = "add_member" -> "ADD_MEMBER"
      [] op = "delete_member" -> "DELETE_MEMBER"
      [] op = "update_weekly_leaderboard" -> "UPDATE_WEEKLY"
      [] op = "update_monthly_leaderboard" -> "UPDATE_MONTHLY"
      [] op = "delete_weekly_entry" -> "DELETE_WEEKLY"
      [] op = "delete_monthly_entry" -> "DELETE_MONTHLY"

Audited ==
    {"login", "add_member", "delete_member", "update_weekly_leaderboard",
     "update_monthly_leaderboard", "delete_weekly_entry",
     "delete_monthly_entry"}

C10_OneAuditEntry ==
    /\ [][\A r \in Requests :
            (Responds(r) /\ req'[r].op \in Audited /\ req'[r].resp.status = 200)
            => /\ Len(db'.audit_log) = Len(db.audit_log) + 1
               /\ SubSeq(db'.audit_log, 1, Len(db.audit_log)) = db.audit_log
               /\ db'.audit_log[Len(db'.audit_log)].action = TagOf(req'[r].op)]_vars
    /\ [][db'.audit_log # db.audit_log
          => \E r \in Requests : Responds(r) /\ req'[r].resp.status = 200]_vars

\* a login, an upsert and a stat delete of this run are in the audit log
C10_Witness ==
    /\ Len(db.audit_log) = Len(boot.audit_log) + 3
    /\ db.audit_log[Len(db.audit_log) - 2].action = "LOGIN"
    /\ db.audit_log[Len(db.audit_log) - 1].action = "UPDATE_MONTHLY"
    /\ db.audit_log[Len(db.audit_log)].action = "DELETE_MONTHLY"

\* C11: the audit log is append-only: every step leaves each existing
\* audit entry in place and unchanged, so the log of a state is a prefix
\* of the log of the next; and the entries the process found at start-up
\* are a prefix of the log in every state.
IsPrefix(s, t) == Len(s) <= Len(t) /\ SubSeq(t, 1, Len(s)) = s

C11_AuditAppendOnly ==
    /\ [] IsPrefix(boot.audit_log, db.audit_log)
    /\ [][IsPrefix(db.audit_log, db'.audit_log)]_vars

\* entries of an earlier run, then two of this run, after a member and
\* its rows were deleted
C11_Witness ==
    /\ boot.audit_log # <<>>
    /\ Len(db.audit_log) >= Len(boot.audit_log) + 2
    /\ db.audit_log[Len(db.audit_log)].action = "DELETE_MEMBER"

\* C12: an addMember whose INSERT finds the name already in members is
\* answered 400 "Member already exists" and leaves the whole database
\* (members, both stat tables, audit log) as it was; an addMember answered
\* that way did find the name; and no two members share a name, in the
\* committed database or in any open transaction, whatever the
\* interleaving of requests.
DistinctNames(d) ==
    \A m1, m2 \in d.members : m1.name = m2.name => m1 = m2

AtInsert(r) == req[r].op = "add_member" /\ req[r].pc = "insert"

C12_DuplicateMember ==
    /\ [](DistinctNames(db) /\ DistinctNames(txn))
    /\ [][\A r \in Requests :
            (AtInsert(r) /\ req'[r] # req[r])
            => IF \E m \in db.members : m.name = req[r].name
               THEN /\ req'[r].pc = "done"
                    /\ req'[r].resp.status = 400
                    /\ req'[r].resp.error = "Member already exists"
                    /\ db' = db
               ELSE /\ req'[r].pc = "commit"
                    /\ db' = db]_vars

\* two addMember requests for Carol ran together: one has committed and is
\* about to write its audit entry, the other has been refused
C12_Witness ==
    \E r, q \in Requests :
        /\ req[r].op = "add_member"
        /\ req[r].pc = "done"
        /\ req[r].name = "Carol"
        /\ req[r].resp.error = "Member already exists"
        /\ req[q].op = "add_member"
        /\ req[q].pc = "log"
        /\ req[q].name = "Carol"
        /\ \E m \in db.members : m.name = "Carol"

\* C13: a stat delete answered 404 found no row for (member_id, period)
\* and changed nothing in the database; a stat delete that goes on to its
\* 200 removes, by its commit, exactly the one row of its table keyed
\* (member_id, period) and leaves every other row, the other stat table,
\* the members and the audit log as they were.
StatDeleteCommits(r, op) ==
    req[r].op = op /\ req[r].pc = "commit" /\ req'[r].pc = "log"

C13_StatDelete ==
    [][\A r \in Requests :
         /\ (Responds(r) /\ req'[r].resp.status = 404
               /\ req'[r].op \in {"delete_weekly_entry", "delete_monthly_entry"})
            => /\ db' = db
               /\ req'[r].op = "delete_weekly_entry"
                  => ~ \E x \in Rows(db.weekly_leaderboard) :
                         x.member_id = req[r].member_id
                         /\ x.week_start = req[r].period
               /\ req'[r].op = "delete_monthly_entry"
                  => ~ \E x \in Rows(db.monthly_leaderboard) :
                         x.member_id = req[r].member_id
                         /\ x.month_year = req[r].period
         /\ StatDeleteCommits(r, "delete_weekly_entry")
            => \E x \in Rows(db.weekly_leaderboard) :
                  /\ x.member_id = req[r].member_id
                  /\ x.week_start = req[r].period
                  /\ db' = [db EXCEPT !.weekly_leaderboard = @ (-) SetToBag({x})]
         /\ StatDeleteCommits(r, "delete_monthly_entry")
            => \E x \in Rows(db.monthly_leaderboard) :
                  /\ x.member_id = req[r].member_id
                  /\ x.month_year = req[r].period
                  /\ db' = [db EXCEPT !.monthly_leaderboard = @ (-) SetToBag({x})]]_vars

\* C14: an upsert of an authenticated session whose body has no member_id
\* is answered 400 "member_id is required" on arrival; an upsert whose
\* member_id is no member's id when it is looked up is answered 404
\* "Member not found"; and an upsert answered 400 or 404 has executed no
\* statement that writes: the database, the open transactions and the
\* write lock are as they were, so no stat row is created or changed and
\* no audit entry is appended.
Upserts == {"update_weekly_leaderboard", "update_monthly_leaderboard"}

C14_UpsertErrors ==
    [][\A r \in Requests :
         /\ (Arrives(r) /\ req'[r].op \in Upserts /\ req'[r].member_id = 0
               /\ "user_id" \in DOMAIN cookie)
            => /\ req'[r].pc = "done"
               /\ req'[r].resp.status = 400
               /\ req'[r].resp.error = "member_id is required"
         /\ (req[r].op \in Upserts /\ req[r].pc = "lookup" /\ req'[r] # req[r]
               /\ req[r].member_id \notin IdsOf(db))
            => /\ req'[r].pc = "done"
               /\ req'[r].resp.status = 404
               /\ req'[r].resp.error = "Member not found"
         /\ (Responds(r) /\ req'[r].op \in Upserts
               /\ req'[r].resp.status \in {400, 404})
            => /\ req[r].pc \in {"idle", "lookup"}
               /\ db' = db
               /\ txn' = txn
               /\ lock' = lock]_vars

\* an upsert for a member deleted in this run is answered 404
C14_Witness ==
    \E r \in Requests :
        /\ req[r].pc = "done"
        /\ req[r].op = "update_monthly_leaderboard"
        /\ req[r].resp.status = 404
        /\ req[r].member_id \in IdsOf(boot)
        /\ req[r].member_id \notin IdsOf(db)

\* C15: for all non-negative counters s, a, b up to MaxScoreArg, the
\* totalPoints that calculate_points gives a row is 10*s + 20*a + b, it is
\* not negative, and of two rows of which one has each counter at least as
\* large as the other's, that one has at least as many points (so the
\* score does not decrease when any one argument grows).
Scored(e) ==
    /\ e.totalPoints =
          10 * e.sessionsAttended + 20 * e.assessmentsSubmitted + e.bonusPoints
    /\ e.totalPoints >= 0

C15_ScoreFormula ==
    \A r \in Requests :
        Answered(r, "get_weekly_leaderboard")
        => /\ \A i \in DOMAIN req[r].resp.data : Scored(req[r].resp.data[i])
           /\ \A i, j \in DOMAIN req[r].resp.data :
                 LET e == req[r].resp.data[i]
                     f == req[r].resp.data[j]
                 IN  (/\ e.sessionsAttended <= f.sessionsAttended
                      /\ e.assessmentsSubmitted <= f.assessmentsSubmitted
                      /\ e.bonusPoints <= f.bonusPoints)
                     => e.totalPoints <= f.totalPoints

\* two rows that differ in the bonus alone, by one, are scored one apart
C15_Witness ==
    \E r \in Requests :
        /\ Answered(r, "get_weekly_leaderboard")
        /\ Len(req[r].resp.data) = 2
        /\ req[r].resp.data[1].sessionsAttended = MaxScoreArg
        /\ req[r].resp.data[2].sessionsAttended = MaxScoreArg
        /\ req[r].resp.data[1].assessmentsSubmitted = 1
        /\ req[r].resp.data[2].assessmentsSubmitted = 1
        /\ req[r].resp.data[1].bonusPoints = req[r].resp.data[2].bonusPoints + 1
        /\ req[r].resp.data[1].totalPoints = req[r].resp.data[2].totalPoints + 1

\* C16: the audit entry that a request appends records as admin_username
\* the username of the session the request was performed under: for login
\* the session it created, for logout the session it ended (whose username
\* the handler read before clearing it), for the admin operations the
\* session the request came with.  Every request that appends an entry is
\* performed under such a session, so "system" is never recorded.
ActingUser(rq) ==
    IF rq.op = "logout" THEN rq.details[1] ELSE rq.sess.username

C16_AuditActor ==
    [][\A r \in Requests :
         (Responds(r) /\ Len(db'.audit_log) = Len(db.audit_log) + 1)
         => /\ db'.audit_log[Len(db'.audit_log)].admin_username
                  = ActingUser(req[r])
            /\ db'.audit_log[Len(db'.audit_log)].admin_username # "system"]_vars

\* C17: for every member id the audit log holds at most one DELETE_MEMBER
\* entry (ids are never given twice), whatever the interleaving of the
\* deleteMember requests for that id: of the requests for one id at most
\* one is answered 200 and writes its entry.
DeleteMemberEntries(id) ==
    {i \in DOMAIN db.audit_log :
        /\ db.audit_log[i].action = "DELETE_MEMBER"
        /\ db.audit_log[i].details[3] = id}

C17_OneDeletePerMember ==
    \A id \in MemberIds : Cardinality(DeleteMemberEntries(id)) <= 1

\* C18: the commit of a weekly upsert or weekly stat delete issued in week
\* P (the week when the handler read the clock) leaves every weekly row of
\* another week, and the whole monthly table, as they were, and
\* symmetrically for the monthly operations and month P; when the clock
\* moves to a new week (month) no row is lost and every leaderboard for the
\* new week (month) shows every member with zeros; and a member shown with
\* zeros for the current week (month) stays so until an upsert for that
\* member and that week (month) commits.
OtherWeeks(table, week_start) ==
    [x \in {y \in Rows(table) : y.week_start # week_start} |-> table[x]]

OtherMonths(table, month_year) ==
    [x \in {y \in Rows(table) : y.month_year # month_year} |-> table[x]]

Commits(r, ops) ==
    req[r].op \in ops /\ req[r].pc = "commit" /\ req'[r].pc = "log"

Zeros(e) ==
    /\ e.sessionsAttended = 0
    /\ e.assessmentsSubmitted = 0
    /\ e.bonusPoints = 0
    /\ e.totalPoints = 0

WeeklyZeros(d, id, week_start) ==
    \A data \in WeeklyLeaderboards(d, week_start) :
        \A i \in DOMAIN data : data[i].id = id => Zeros(data[i])

MonthlyZeros(d, id, month_year) ==
    \A data \in MonthlyLeaderboards(d, month_year) :
        \A i \in DOMAIN data : data[i].id = id => Zeros(data[i])

C18_CurrentPeriodOnly ==
    [][/\ \A r \in Requests :
            /\ Commits(r, {"update_weekly_leaderboard", "delete_weekly_entry"})
               => /\ OtherWeeks(db'.weekly_leaderboard, req[r].period)
                        = OtherWeeks(db.weekly_leaderboard, req[r].period)
                  /\ db'.monthly_leaderboard = db.monthly_leaderboard
            /\ Commits(r, {"update_monthly_leaderboard", "delete_monthly_entry"})
               => /\ OtherMonths(db'.monthly_leaderboard, req[r].period)
                        = OtherMonths(db.monthly_leaderboard, req[r].period)
                  /\ db'.weekly_leaderboard = db.weekly_leaderboard
       /\ today' # today
          => /\ db' = db
             /\ get_week_start(today') # get_week_start(today)
                => \A id \in IdsOf(db') :
                      WeeklyZeros(db', id, get_week_start(today'))
             /\ get_month_year(today') # get_month_year(today)
                => \A id \in IdsOf(db') :
                      MonthlyZeros(db', id, get_month_year(today'))
       /\ (today' = today /\ db' # db)
          => \A id \in IdsOf(db) \cap IdsOf(db') :
                /\ (/\ WeeklyZeros(db, id, get_week_start(today))
                    /\ ~WeeklyZeros(db', id, get_week_start(today)))
                   => \E r \in Requests :
                         /\ Commits(r, {"update_weekly_leaderboard"})
                         /\ req[r].member_id = id
                         /\ req[r].period = get_week_start(today)
                /\ (/\ MonthlyZeros(db, id, get_month_year(today))
                    /\ ~MonthlyZeros(db', id, get_month_year(today)))
                   => \E r \in Requests :
                         /\ Commits(r, {"update_monthly_leaderboard"})
                         /\ req[r].member_id = id
                         /\ req[r].period = get_month_year(today)]_vars

\* after the week changed, a member has the row of the old week and a row
\* of the new one, and the leaderboard of the new week is served with that
\* member's new points and the other member at zero
C18_Witness ==
    \E r \in Requests :
        /\ today = 1
        /\ Answered(r, "get_weekly_leaderboard")
        /\ req[r].period = get_week_start(1)
        /\ \E x, y \in Rows(db.weekly_leaderboard) :
              /\ x.member_id = y.member_id
              /\ x.week_start = get_week_start(0)
              /\ y.week_start = get_week_start(1)
              /\ \E i, j \in DOMAIN req[r].resp.data :
                    /\ req[r].resp.data[i].id = x.member_id
                    /\ req[r].resp.data[i].totalPoints > 0
                    /\ req[r].resp.data[j].id # x.member_id
                    /\ Zeros(req[r].resp.data[j])

\* C19: the audit write follows the data commit.  A request comes to its
\* log_action call for one of the six data tags only by the step that
\* commits its own transaction, and that step leaves the mutation in the
\* committed database and the audit log as it was; an audit entry with a
\* data tag is appended only by a request that is at that call, with no
\* transaction open; and the step that answers a request 400, 401 or 404
\* appends nothing, nor has that request come to its commit before.
DataTags ==
    {"ADD_MEMBER", "DELETE_MEMBER", "UPDATE_WEEKLY", "UPDATE_MONTHLY",
     "DELETE_WEEKLY", "DELETE_MONTHLY"}

Committed(rq, d) ==
    CASE rq.action = "ADD_MEMBER" ->
            [id |-> rq.member_id, name |-> rq.name] \in d.members
      [] rq.action = "DELETE_MEMBER" ->
            /\ rq.member_id \notin IdsOf(d)
            /\ \A x \in Rows(d.weekly_leaderboard) \cup Rows(d.monthly_leaderboard) :
                  x.member_id # rq.member_id
      [] rq.action = "UPDATE_WEEKLY" ->
            WeeklyRow(rq.member_id, rq.vals, rq.period)
               \in Rows(d.weekly_leaderboard)
      [] rq.action = "UPDATE_MONTHLY" ->
            MonthlyRow(rq.member_id, rq.vals, rq.period)
               \in Rows(d.monthly_leaderboard)
      [] rq.action = "DELETE_WEEKLY" ->
            \A x \in Rows(d.weekly_leaderboard) :
               ~(x.member_id = rq.member_id /\ x.week_start = rq.period)
      [] rq.action = "DELETE_MONTHLY" ->
            \A x \in Rows(d.monthly_leaderboard) :
               ~(x.member_id = rq.member_id /\ x.month_year = rq.period)

C19_AuditAfterCommit ==
    [][/\ \A r \in Requests :
            /\ (req[r].pc # "log" /\ req'[r].pc = "log"
                  /\ req'[r].action \in DataTags)
               => /\ lock = r
                  /\ lock' = None
                  /\ db' = txn
                  /\ Committed(req'[r], db')
                  /\ db'.audit_log = db.audit_log
            /\ (Responds(r) /\ req'[r].resp.status \in {400, 401, 404})
               => /\ db' = db
                  /\ req[r].pc \in {"idle", "lookup", "insert"}
       /\ (/\ db'.audit_log # db.audit_log
           /\ db'.audit_log[Len(db'.audit_log)].action \in DataTags)
          => \E r \in Requests :
                /\ req[r].pc = "log"
                /\ req[r].action = db'.audit_log[Len(db'.audit_log)].action
                /\ Responds(r)
                /\ lock = None
                /\ txn = db]_vars

\* a member was deleted in this run and the deletion logged; a second
\* delete of the same id has been answered 404 and has logged nothing
C19_Witness ==
    \E r \in Requests :
        /\ req[r].pc = "done"
        /\ req[r].op = "delete_member"
        /\ req[r].resp.status = 404
        /\ Len(db.audit_log) = Len(boot.audit_log) + 2
        /\ db.audit_log[Len(db.audit_log)].action = "DELETE_MEMBER"
        /\ db.audit_log[Len(db.audit_log)].details[3] = req[r].member_id

====
